---- MODULE Spec2Model ----
(***************************************************************************)
(* Device selection and error translation helpers of the matrixMul sample: *)
(*   helper_cuda_drvapi.h  (__checkCudaErrors, gpuDeviceInitDRV,           *)
(*                          getMaxGflopsDeviceIdDRV, findCudaDeviceDRV)    *)
(*   cudaGLHelper.h        (gpuGLDeviceInit, findCudaGLDevice,             *)
(*                          sdkCheckErrorGL, SDK_CHECK_ERROR_GL)           *)
(*                                                                         *)
(* The machine (the enumerated devices) is fixed by Init.  One action per  *)
(* function runs the whole function on a command line and a driver fault   *)
(* and records how the call ended: it returned a value, it called          *)
(* exit(code), or the overflow trap of the build aborted it.               *)
(***************************************************************************)
EXTENDS Integers, Sequences, FiniteSets

VARIABLES devices, pc, call, result

vars == <<devices, pc, call, result>>

\* ------------------------------------------------------------------ bounds

\* Most devices the driver enumerates.
MaxDevices == 2

\* Largest distance of a rejected index above the last valid one.
MaxDevArgOver == 1

\* --------------------------------------------------------------- constants

CUDA_SUCCESS == 0

CUDA_ERROR_INVALID_DEVICE == 101

CUDA_ERROR_UNKNOWN == 999

GL_NO_ERROR == 0

GL_INVALID_ENUM == 1280

EXIT_FAILURE == 1

\* CUresult values handed to __checkCudaErrors directly.
CUresults == {CUDA_SUCCESS, 1, 2, 3, 100, CUDA_ERROR_INVALID_DEVICE, CUDA_ERROR_UNKNOWN}

\* ------------------------------------------------- 32-bit signed arithmetic
\* int is 32 bits wide.  Products are formed from 15-bit limbs so that no
\* intermediate value leaves the 32-bit integers of TLC.

LimbBase == 2^15

TwoTo30 == 2^30

INT_MAX == (TwoTo30 - 1) + TwoTo30

Abs(x) == IF x < 0 THEN 0 - x ELSE x

\* A value used more than once is bound by a quantifier over a singleton, so
\* that it is evaluated once: CHOOSE r \in {F(x) : x \in {v}} : TRUE is F(v).

Limbs(n) == <<n % LimbBase, (n \div LimbBase) % LimbBase, n \div (LimbBase * LimbBase)>>

\* The magnitude |a| * |b| as five base-2^15 limbs, least significant first.
Columns(x, y) ==
    << x[1] * y[1],
       x[1] * y[2] + x[2] * y[1],
       x[1] * y[3] + x[2] * y[2] + x[3] * y[1],
       x[2] * y[3] + x[3] * y[2],
       x[3] * y[3] >>

\* The columns c with the carries propagated from column i on; k is the carry in.
RECURSIVE Carry(_, _, _)
Carry(c, i, k) ==
    IF i = 5 THEN <<c[5] + k>>
    ELSE <<(c[i] + k) % LimbBase>> \o Carry(c, i + 1, (c[i] + k) \div LimbBase)

Magnitude(a, b) ==
    CHOOSE r \in {Carry(c, 1, 0) : c \in {Columns(Limbs(Abs(a)), Limbs(Abs(b)))}} : TRUE

Negative(a, b) == (a < 0 /\ b > 0) \/ (a > 0 /\ b < 0)

\* a * b is not representable in int.
Overflows(a, b) ==
    \E m \in {Magnitude(a, b)} :
        \/ m[5] # 0
        \/ m[4] # 0
        \/ m[3] > 2
        \/ m[3] = 2 /\ ~(Negative(a, b) /\ m[2] = 0 /\ m[1] = 0)

\* a * b reduced modulo 2^32 into the int range (two's complement).
Signed(m) ==
    LET low == m[1] + m[2] * LimbBase
        top == m[3] % 4
    IN  IF top < 2 THEN top * TwoTo30 + low ELSE (top - 4) * TwoTo30 + low

Wrap32(a, b) ==
    CHOOSE r \in {IF Negative(a, b) /\ s # (0 - INT_MAX) - 1 THEN 0 - s ELSE s :
                  s \in {Signed(Magnitude(a, b))}} : TRUE

\* The exact product of a and b compared with that of c and d.
RECURSIVE LimbsLess(_, _, _)
LimbsLess(m, n, i) ==
    IF i = 0 THEN FALSE
    ELSE IF m[i] # n[i] THEN m[i] < n[i]
    ELSE LimbsLess(m, n, i - 1)

IsZero(m) == \A i \in 1..5 : m[i] = 0

TrueLess(a, b, c, d) ==
    \E m \in {Magnitude(a, b)}, n \in {Magnitude(c, d)} :
        LET ng == Negative(a, b) /\ ~IsZero(m)
            nh == Negative(c, d) /\ ~IsZero(n)
        IN  IF ng /\ nh THEN LimbsLess(n, m, 5)
            ELSE IF ng THEN TRUE
            ELSE IF nh THEN FALSE
            ELSE LimbsLess(m, n, 5)

\* ------------------------------------------------------------ environment

\* How the build resolves a signed multiplication that overflows (undefined
\* behaviour): it wraps modulo 2^32, or it traps and the process aborts.
OverflowModes == {"wrap", "trap"}

NoFault == "none"

\* The native calls each function makes, itself or through the functions it
\* calls; a fault makes one of them fail.
ApisOf(fn) ==
    CASE fn = "gpuDeviceInitDRV" ->
            {"cuInit", "cuDeviceGetCount", "cuDeviceGet", "cuDeviceGetName"}
      [] fn = "getMaxGflopsDeviceIdDRV" ->
            {"cuInit", "cuDeviceGetCount", "cuDeviceComputeCapability", "cuDeviceGetAttribute"}
      [] fn = "findCudaDeviceDRV" ->
            {"cuInit", "cuDeviceGetCount", "cuDeviceGet", "cuDeviceGetName",
             "cuDeviceComputeCapability", "cuDeviceGetAttribute"}
      [] fn = "gpuGLDeviceInit" ->
            {"cudaGetDeviceCount", "cudaGetDeviceProperties", "cudaGLSetGLDevice"}
      [] fn = "findCudaGLDevice" ->
            {"cudaGetDeviceCount", "cudaGetDeviceProperties", "cudaGLSetGLDevice", "cudaDeviceReset"}
      [] OTHER -> {}

Faults(fn) == {NoFault} \cup ApisOf(fn)

\* The devices a machine may hold: compute capability, multiprocessor count
\* and clock rate in kHz.
DeviceKinds ==
    { [major |-> 2,    minor |-> 0,    multiProcessorCount |-> 16, clockRate |-> 1544000],
      [major |-> 3,    minor |-> 0,    multiProcessorCount |-> 2,  clockRate |-> 900000],
      [major |-> 3,    minor |-> 5,    multiProcessorCount |-> 14, clockRate |-> 876000],
      [major |-> 3,    minor |-> 0,    multiProcessorCount |-> 0,  clockRate |-> 900000],
      [major |-> 0,    minor |-> 0,    multiProcessorCount |-> 1,  clockRate |-> 1000],
      [major |-> 9999, minor |-> 9999, multiProcessorCount |-> 1,  clockRate |-> 1000000] }

Machines == UNION { [1..n -> DeviceKinds] : n \in 0..MaxDevices }

\* Values of "device=<N>" on the command line.
DevArgs == (0 - 2)..(MaxDevices + MaxDevArgOver)

\* A command line: whether "device" is present, its integer value, "quiet".
CommandLines ==
    { [hasDevice |-> h, devArg |-> n, quiet |-> q] :
        h \in BOOLEAN, n \in DevArgs, q \in BOOLEAN }

\* The status an API call returns under a fault.
ApiStatus(fault, api) == IF fault = api THEN CUDA_ERROR_UNKNOWN ELSE CUDA_SUCCESS

\* cuDeviceGet: the driver knows the ordinals 0 .. count-1 only.
cuDeviceGet(devs, fault, ordinal) ==
    IF fault = "cuDeviceGet" THEN CUDA_ERROR_UNKNOWN
    ELSE IF ordinal < 0 \/ ordinal > Len(devs) - 1 THEN CUDA_ERROR_INVALID_DEVICE
    ELSE CUDA_SUCCESS

\* The CUdevice handle cuDeviceGet stores for an ordinal.
DeviceHandle(ordinal) == ordinal

\* helper_string.h
checkCmdLineFlag(argv, name) ==
    IF name = "device" THEN argv.hasDevice ELSE argv.quiet

getCmdLineArgumentInt(argv, name) ==
    IF name = "device=" /\ argv.hasDevice THEN argv.devArg ELSE 0

\* drvapi_error_string.h
getCudaDrvErrorString(err) ==
    CASE err = CUDA_SUCCESS              -> "CUDA_SUCCESS"
      [] err = 1                         -> "CUDA_ERROR_INVALID_VALUE"
      [] err = 2                         -> "CUDA_ERROR_OUT_OF_MEMORY"
      [] err = 3                         -> "CUDA_ERROR_NOT_INITIALIZED"
      [] err = 100                       -> "CUDA_ERROR_NO_DEVICE"
      [] err = CUDA_ERROR_INVALID_DEVICE -> "CUDA_ERROR_INVALID_DEVICE"
      [] err = CUDA_ERROR_UNKNOWN        -> "CUDA_ERROR_UNKNOWN"
      [] OTHER                           -> "<unknown>"

\* Cores per multiprocessor of a compute capability; -1 when it is unknown.
ConvertSMVer2Cores(major, minor) ==
    CASE major = 1                -> 8
      [] major = 2 /\ minor = 0   -> 32
      [] major = 2 /\ minor = 1   -> 48
      [] major = 3                -> 192
      [] OTHER                    -> 0 - 1

\* ------------------------------------------------------------ call results
\* kind    "return", "exit" (exit(value)) or "abort" (the overflow trap)
\* value   the return value, or the exit code
\* out     what the call printed: <<stream, text, integers, strings>>
\* written the values stored through p_devID
\* failed  the failures that occurred on the way, by call site

Returned(v, out, failed) ==
    [kind |-> "return", value |-> v, out |-> out, written |-> {}, failed |-> failed]

Exited(code, out, failed) ==
    [kind |-> "exit", value |-> code, out |-> out, written |-> {}, failed |-> failed]

Aborted(out, failed) ==
    [kind |-> "abort", value |-> 0, out |-> out, written |-> {}, failed |-> failed]

\* r, a call that did not return, met after `out` was printed and `failed` occurred.
After(out, failed, r) ==
    [r EXCEPT !.out = out \o r.out, !.failed = failed \cup r.failed]

DrvFile == "helper_cuda_drvapi.h"

GLFile == "cudaGLHelper.h"

Site(api, line, status) == IF status # CUDA_SUCCESS THEN {<<api, line>>} ELSE {}

\* ---------------------------------------------------- helper_cuda_drvapi.h

MAX(a, b) == IF a > b THEN a ELSE b

\* The exit is missing: the error is printed and the caller goes on.
checkCudaErrors_NoExit(err, file, line) ==
    IF CUDA_SUCCESS # err
    THEN Returned(0,
                  << <<"stderr", "checkCudaErrors() Driver API error = %04d \"%s\" from file <%s>, line %i.",
                       <<err, line>>, <<getCudaDrvErrorString(err), file>>>> >>,
                  {})
    ELSE Returned(0, <<>>, {})

\* The test is inverted: success terminates, an error passes.
checkCudaErrors_Inverted(err, file, line) ==
    IF CUDA_SUCCESS = err
    THEN Exited(0 - 1,
                << <<"stderr", "checkCudaErrors() Driver API error = %04d \"%s\" from file <%s>, line %i.",
                     <<err, line>>, <<getCudaDrvErrorString(err), file>>>> >>,
                {})
    ELSE Returned(0, <<>>, {})

\* exit(EXIT_FAILURE) instead of exit(-1).
checkCudaErrors_ExitFailure(err, file, line) ==
    IF CUDA_SUCCESS # err
    THEN Exited(EXIT_FAILURE,
                << <<"stderr", "checkCudaErrors() Driver API error = %04d \"%s\" from file <%s>, line %i.",
                     <<err, line>>, <<getCudaDrvErrorString(err), file>>>> >>,
                {})
    ELSE Returned(0, <<>>, {})

__checkCudaErrors(err, file, line) ==
    IF CUDA_SUCCESS # err
    THEN Exited(0 - 1,
                << <<"stderr", "checkCudaErrors() Driver API error = %04d \"%s\" from file <%s>, line %i.",
                     <<err, line>>, <<getCudaDrvErrorString(err), file>>>> >>,
                {})
    ELSE Returned(0, <<>>, {})

\* The test for an empty machine is missing.
NoDevices_Never(deviceCount) == FALSE

\* if (deviceCount == 0)
NoDevices(deviceCount) == deviceCount = 0

\* A negative index is mirrored instead of clamped.
ClampDev_Mirror(dev) == IF dev < 0 THEN 0 - dev ELSE dev

\* if (dev < 0) dev = 0;
ClampDev(dev) == IF dev < 0 THEN 0 ELSE dev

\* if (dev > deviceCount-1)
InvalidDev(dev, deviceCount) == dev > deviceCount - 1

\* The sign of the rejected index is lost.
RejectedDev_Unsigned(dev) == dev

\* return -dev;
RejectedDev(dev) == 0 - dev

gpuDeviceInitDRV(devs, fault, argv) ==
    LET err         == ApiStatus(fault, "cuInit")
        cnt         == ApiStatus(fault, "cuDeviceGetCount")
        chk53       == IF CUDA_SUCCESS = err
                       THEN __checkCudaErrors(cnt, DrvFile, 53)
                       ELSE Returned(0, <<>>, {})
        deviceCount == IF CUDA_SUCCESS = err /\ cnt = CUDA_SUCCESS THEN Len(devs) ELSE 0
        f1          == Site("cuInit", 51, err)
                       \cup (IF CUDA_SUCCESS = err THEN Site("cuDeviceGetCount", 53, cnt) ELSE {})
                       \cup (IF CUDA_SUCCESS = err /\ cnt = CUDA_SUCCESS /\ Len(devs) = 0
                             THEN {<<"no devices", 53>>} ELSE {})
        dev         == ClampDev(getCmdLineArgumentInt(argv, "device="))
        get         == cuDeviceGet(devs, fault, dev)
        chk68       == __checkCudaErrors(get, DrvFile, 68)
        name        == ApiStatus(fault, "cuDeviceGetName")
    IN  IF chk53.kind # "return" THEN After(<<>>, f1, chk53)
        ELSE IF NoDevices(deviceCount)
        THEN Exited(0 - 1, << <<"stderr", "cudaDeviceInit error: no devices supporting CUDA", <<>>, <<>>>> >>, f1)
        ELSE IF InvalidDev(dev, deviceCount)
        THEN Returned(RejectedDev(dev),
                      << <<"stderr", ">> %d CUDA capable GPU device(s) detected. <<", <<deviceCount>>, <<>>>>,
                         <<"stderr", ">> cudaDeviceInit (-device=%d) is not a valid GPU device. <<", <<dev>>, <<>>>> >>,
                      f1 \cup {<<"invalid index", 61>>})
        ELSE IF chk68.kind # "return" THEN After(<<>>, f1 \cup Site("cuDeviceGet", 68, get), chk68)
        ELSE Returned(dev,
                      IF checkCmdLineFlag(argv, "quiet") = FALSE
                      THEN << <<"stdout", "gpuDeviceInitDRV() Using CUDA Device [%d]: %s", <<dev>>, <<>>>> >>
                      ELSE <<>>,
                      f1 \cup Site("cuDeviceGetName", 70, name))

\* sm_per_multiproc of a device (lines 108-112)
sm_per_multiproc(d) ==
    IF d.major = 9999 /\ d.minor = 9999 THEN 1 ELSE ConvertSMVer2Cores(d.major, d.minor)

\* int compute_perf = multiProcessorCount * sm_per_multiproc * clockRate;
\* evaluated left to right in int, as the wrapping build computes it.
compute_perf(d) ==
    CHOOSE r \in {Wrap32(p, d.clockRate) : p \in {Wrap32(d.multiProcessorCount, sm_per_multiproc(d))}} : TRUE

\* One of the two multiplications leaves the int range.
PerfOverflows(d) ==
    \/ Overflows(d.multiProcessorCount, sm_per_multiproc(d))
    \/ \E p \in {Wrap32(d.multiProcessorCount, sm_per_multiproc(d))} : Overflows(p, d.clockRate)

\* The first loop: the best major SM architecture.
RECURSIVE BestSMArch(_, _, _)
BestSMArch(devs, current_device, best_SM_arch) ==
    IF current_device < Len(devs)
    THEN LET major == devs[current_device + 1].major
         IN  BestSMArch(devs, current_device + 1,
                        IF major > 0 /\ major < 9999 THEN MAX(best_SM_arch, major) ELSE best_SM_arch)
    ELSE best_SM_arch

\* >= instead of >: a later device of equal score replaces an earlier one.
SelectDevice_GreaterEqual(st, perf, major, best_SM_arch, current_device) ==
    IF perf >= st.max_compute_perf
    THEN IF best_SM_arch > 2
         THEN IF major = best_SM_arch
              THEN [st EXCEPT !.max_compute_perf = perf, !.max_perf_device = current_device]
              ELSE st
         ELSE [st EXCEPT !.max_compute_perf = perf, !.max_perf_device = current_device]
    ELSE st

\* The body of the second loop after compute_perf is known (lines 115-127).
SelectDevice(st, perf, major, best_SM_arch, current_device) ==
    IF perf > st.max_compute_perf
    THEN IF best_SM_arch > 2
         THEN IF major = best_SM_arch
              THEN [st EXCEPT !.max_compute_perf = perf, !.max_perf_device = current_device]
              ELSE st
         ELSE [st EXCEPT !.max_compute_perf = perf, !.max_perf_device = current_device]
    ELSE st

\* The second loop: the best device; in a trapping build it stops at the first overflow.
RECURSIVE BestPerfDevice(_, _, _, _, _)
BestPerfDevice(devs, mode, best_SM_arch, current_device, st) ==
    IF current_device < Len(devs)
    THEN LET d == devs[current_device + 1]
         IN  IF PerfOverflows(d) /\ mode = "trap"
             THEN [st EXCEPT !.trapped = TRUE]
             ELSE CHOOSE r \in {BestPerfDevice(devs, mode, best_SM_arch, current_device + 1, next) :
                                next \in {SelectDevice(st, compute_perf(d), d.major, best_SM_arch, current_device)}} : TRUE
    ELSE st

getMaxGflopsDeviceIdDRV(devs, fault, mode) ==
    LET init         == ApiStatus(fault, "cuInit")
        cnt          == ApiStatus(fault, "cuDeviceGetCount")
        cc           == ApiStatus(fault, "cuDeviceComputeCapability")
        attr         == ApiStatus(fault, "cuDeviceGetAttribute")
        device_count == Len(devs)
        f1           == Site("cuInit", 85, init)
        f2           == f1 \cup (IF device_count = 0 THEN {<<"no devices", 86>>} ELSE {})
        best_SM_arch == BestSMArch(devs, 0, 0)
        st           == BestPerfDevice(devs, mode, best_SM_arch, 0,
                                       [max_compute_perf |-> 0, max_perf_device |-> 0, trapped |-> FALSE])
    IN  IF cnt # CUDA_SUCCESS
        THEN After(<<>>, f1 \cup Site("cuDeviceGetCount", 86, cnt), __checkCudaErrors(cnt, DrvFile, 86))
        ELSE IF device_count > 0 /\ cc # CUDA_SUCCESS
        THEN After(<<>>, f2 \cup Site("cuDeviceComputeCapability", 90, cc), __checkCudaErrors(cc, DrvFile, 90))
        ELSE IF device_count > 0 /\ attr # CUDA_SUCCESS
        THEN After(<<>>, f2 \cup Site("cuDeviceGetAttribute", 100, attr), __checkCudaErrors(attr, DrvFile, 100))
        ELSE IF st.trapped THEN Aborted(<<>>, f2)
        ELSE Returned(st.max_perf_device, <<>>, f2)

\* The null test is missing.
WriteDevID_Always(p_devID, devID) == {devID}

\* if (p_devID) *p_devID = devID;
WriteDevID(p_devID, devID) == IF p_devID THEN {devID} ELSE {}

\* uninit is what the uninitialized local cuDevice happens to hold.
\* findCudaDeviceDRV from line 141 (line 149) on: sel is how the selection ended.
FoundDeviceDRV(sel, devs, fault, argv, p_devID, uninit) ==
    LET explicit == checkCmdLineFlag(argv, "device")
        devID    == sel.value
        get      == cuDeviceGet(devs, fault, devID)
        name     == ApiStatus(fault, "cuDeviceGetName")
        out      == IF explicit THEN sel.out
                    ELSE sel.out \o << <<"stdout", "> Using CUDA Device [%d]: %s", <<devID>>, <<>>>> >>
        failed   == sel.failed
                    \cup (IF explicit THEN {} ELSE Site("cuDeviceGetName", 150, name))
                    \cup Site("cuDeviceGet", 153, get)
        cuDevice == IF get = CUDA_SUCCESS THEN DeviceHandle(devID) ELSE uninit
    IN  IF sel.kind # "return" THEN sel
        ELSE IF explicit /\ devID < 0
        THEN Exited(0, sel.out \o << <<"stdout", "exiting...", <<>>, <<>>>> >>, sel.failed)
        ELSE IF ~explicit /\ get # CUDA_SUCCESS
        THEN After(sel.out, sel.failed \cup Site("cuDeviceGet", 149, get), __checkCudaErrors(get, DrvFile, 149))
        ELSE [Returned(cuDevice, out, failed) EXCEPT !.written = WriteDevID(p_devID, devID)]

findCudaDeviceDRV(devs, fault, argv, p_devID, mode, uninit) ==
    CHOOSE r \in {FoundDeviceDRV(sel, devs, fault, argv, p_devID, uninit) :
                  sel \in {IF checkCmdLineFlag(argv, "device")
                           THEN gpuDeviceInitDRV(devs, fault, argv)
                           ELSE getMaxGflopsDeviceIdDRV(devs, fault, mode)}} : TRUE

\* ----------------------------------------------------------- cudaGLHelper.h
\* checkCudaErrors is the macro of helper_cuda_drvapi.h, line 34.

\* if (deviceProp.major < 1)
NotCudaCapable(major) == major < 1

gpuGLDeviceInit(devs, fault, argv) ==
    LET cnt         == ApiStatus(fault, "cudaGetDeviceCount")
        deviceCount == Len(devs)
        f1          == IF deviceCount = 0 THEN {<<"no devices", 21>>} ELSE {}
        dev         == ClampDev(getCmdLineArgumentInt(argv, "device="))
        prop        == ApiStatus(fault, "cudaGetDeviceProperties")
        set         == ApiStatus(fault, "cudaGLSetGLDevice")
        using       == IF checkCmdLineFlag(argv, "quiet") = FALSE
                       THEN << <<"stderr", "Using device %d: %s", <<dev>>, <<>>>> >>
                       ELSE <<>>
    IN  IF cnt # CUDA_SUCCESS
        THEN After(<<>>, Site("cudaGetDeviceCount", 21, cnt), __checkCudaErrors(cnt, GLFile, 21))
        ELSE IF NoDevices(deviceCount)
        THEN Exited(0 - 1, << <<"stderr", "CUDA error: no devices supporting CUDA.", <<>>, <<>>>> >>, f1)
        ELSE IF InvalidDev(dev, deviceCount)
        THEN Returned(RejectedDev(dev),
                      << <<"stderr", ">> %d CUDA capable GPU device(s) detected. <<", <<deviceCount>>, <<>>>>,
                         <<"stderr", ">> gpuGLDeviceInit (-device=%d) is not a valid GPU device. <<", <<dev>>, <<>>>> >>,
                      f1 \cup {<<"invalid index", 30>>})
        ELSE IF prop # CUDA_SUCCESS
        THEN After(<<>>, f1 \cup Site("cudaGetDeviceProperties", 38, prop), __checkCudaErrors(prop, GLFile, 38))
        ELSE IF NotCudaCapable(devs[dev + 1].major)
        THEN Exited(0 - 1, << <<"stderr", "Error: device does not support CUDA.", <<>>, <<>>>> >>,
                    f1 \cup {<<"not CUDA capable", 39>>})
        ELSE IF set # CUDA_SUCCESS
        THEN After(using, f1 \cup Site("cudaGLSetGLDevice", 46, set), __checkCudaErrors(set, GLFile, 46))
        ELSE Returned(dev, using, f1)

\* helper_cuda.h: the runtime API's best-device heuristic.
gpuGetMaxGflopsDeviceId(devs, mode) ==
    LET st == BestPerfDevice(devs, mode, BestSMArch(devs, 0, 0), 0,
                             [max_compute_perf |-> 0, max_perf_device |-> 0, trapped |-> FALSE])
    IN  IF st.trapped THEN Aborted(<<>>, {}) ELSE Returned(st.max_perf_device, <<>>, {})

\* findCudaGLDevice from line 57 (line 65) on: sel is how the selection ended.
FoundGLDevice(sel, fault, argv) ==
    LET explicit == checkCmdLineFlag(argv, "device")
        devID    == sel.value
        reset    == ApiStatus(fault, "cudaDeviceReset")
        set      == ApiStatus(fault, "cudaGLSetGLDevice")
    IN  IF sel.kind # "return" THEN sel
        ELSE IF explicit /\ devID < 0
        THEN Exited(0, sel.out \o << <<"stdout", "no CUDA capable devices found, exiting...", <<>>, <<>>>> >>,
                    sel.failed \cup Site("cudaDeviceReset", 59, reset))
        ELSE IF explicit THEN sel
        ELSE Returned(devID, sel.out, sel.failed \cup Site("cudaGLSetGLDevice", 65, set))

findCudaGLDevice(devs, fault, argv, mode) ==
    CHOOSE r \in {FoundGLDevice(sel, fault, argv) :
                  sel \in {IF checkCmdLineFlag(argv, "device")
                           THEN gpuGLDeviceInit(devs, fault, argv)
                           ELSE gpuGetMaxGflopsDeviceId(devs, mode)}} : TRUE

sdkCheckErrorGL(gl_error, file, line) ==
    IF gl_error # GL_NO_ERROR
    THEN [ret_val |-> FALSE,
          out |-> << <<"stderr", "GL Error in file '%s' in line %d :", <<line>>, <<file>>>>,
                     <<"stderr", "%s", <<gl_error>>, <<>>>> >>]
    ELSE [ret_val |-> TRUE, out |-> <<>>]

\* #define SDK_CHECK_ERROR_GL()
SDK_CHECK_ERROR_GL(gl_error, file, line) ==
    LET chk == sdkCheckErrorGL(gl_error, file, line)
    IN  IF FALSE = chk.ret_val
        THEN Exited(EXIT_FAILURE, chk.out, {<<"glGetError", 84>>})
        ELSE Returned(0, chk.out, {})

\* --------------------------------------------------------------- the system

\* Values an uninitialized CUdevice may hold.
UninitValues == {0 - 1, MaxDevices}

NoCall ==
    [fn |-> "none", argv |-> [hasDevice |-> FALSE, devArg |-> 0, quiet |-> FALSE],
     fault |-> NoFault, mode |-> "wrap", p_devID |-> FALSE, err |-> 0]

Init ==
    /\ devices \in Machines
    /\ pc = "ready"
    /\ call = NoCall
    /\ result = Returned(0, <<>>, {})

\* "device=<N>" carries a value only when it is on the command line.
WellFormed(argv) == argv.hasDevice \/ argv.devArg = 0

Call_checkCudaErrors ==
    /\ pc = "ready"
    /\ \E err \in CUresults :
        /\ call' = [NoCall EXCEPT !.fn = "__checkCudaErrors", !.err = err]
        /\ result' = __checkCudaErrors(err, DrvFile, 53)
    /\ pc' = "done"
    /\ UNCHANGED devices

Call_gpuDeviceInitDRV ==
    /\ pc = "ready"
    /\ \E argv \in CommandLines, fault \in Faults("gpuDeviceInitDRV") :
        /\ WellFormed(argv)
        /\ call' = [NoCall EXCEPT !.fn = "gpuDeviceInitDRV", !.argv = argv, !.fault = fault]
        /\ result' = gpuDeviceInitDRV(devices, fault, argv)
    /\ pc' = "done"
    /\ UNCHANGED devices

Call_getMaxGflopsDeviceIdDRV ==
    /\ pc = "ready"
    /\ \E fault \in Faults("getMaxGflopsDeviceIdDRV"), mode \in OverflowModes :
        /\ call' = [NoCall EXCEPT !.fn = "getMaxGflopsDeviceIdDRV", !.fault = fault, !.mode = mode]
        /\ result' = getMaxGflopsDeviceIdDRV(devices, fault, mode)
    /\ pc' = "done"
    /\ UNCHANGED devices

Call_findCudaDeviceDRV ==
    /\ pc = "ready"
    /\ \E argv \in CommandLines, fault \in Faults("findCudaDeviceDRV"), p_devID \in BOOLEAN,
          mode \in OverflowModes, uninit \in UninitValues :
        /\ WellFormed(argv)
        /\ argv.hasDevice => mode = "wrap"
        /\ call' = [NoCall EXCEPT !.fn = "findCudaDeviceDRV", !.argv = argv, !.fault = fault,
                                  !.mode = mode, !.p_devID = p_devID]
        /\ result' = findCudaDeviceDRV(devices, fault, argv, p_devID, mode, uninit)
    /\ pc' = "done"
    /\ UNCHANGED devices

Call_gpuGLDeviceInit ==
    /\ pc = "ready"
    /\ \E argv \in CommandLines, fault \in Faults("gpuGLDeviceInit") :
        /\ WellFormed(argv)
        /\ call' = [NoCall EXCEPT !.fn = "gpuGLDeviceInit", !.argv = argv, !.fault = fault]
        /\ result' = gpuGLDeviceInit(devices, fault, argv)
    /\ pc' = "done"
    /\ UNCHANGED devices

Call_findCudaGLDevice ==
    /\ pc = "ready"
    /\ \E argv \in CommandLines, fault \in Faults("findCudaGLDevice"), mode \in OverflowModes :
        /\ WellFormed(argv)
        /\ argv.hasDevice => mode = "wrap"
        /\ call' = [NoCall EXCEPT !.fn = "findCudaGLDevice", !.argv = argv, !.fault = fault, !.mode = mode]
        /\ result' = findCudaGLDevice(devices, fault, argv, mode)
    /\ pc' = "done"
    /\ UNCHANGED devices

Call_SDK_CHECK_ERROR_GL ==
    /\ pc = "ready"
    /\ \E gl_error \in {GL_NO_ERROR, GL_INVALID_ENUM} :
        /\ call' = [NoCall EXCEPT !.fn = "SDK_CHECK_ERROR_GL", !.err = gl_error]
        /\ result' = SDK_CHECK_ERROR_GL(gl_error, GLFile, 102)
    /\ pc' = "done"
    /\ UNCHANGED devices

Next ==
    \/ Call_checkCudaErrors
    \/ Call_gpuDeviceInitDRV
    \/ Call_getMaxGflopsDeviceIdDRV
    \/ Call_findCudaDeviceDRV
    \/ Call_gpuGLDeviceInit
    \/ Call_findCudaGLDevice
    \/ Call_SDK_CHECK_ERROR_GL

Spec == Init /\ [][Next]_vars

\* ------------------------------------------------------------------- claims

Done == pc = "done"

Ran(fns) == Done /\ call.fn \in fns

\* The value of "device=<N>" the call sees.
N == getCmdLineArgumentInt(call.argv, "device=")

InitFns == {"gpuDeviceInitDRV", "gpuGLDeviceInit"}

FindFns == {"findCudaDeviceDRV", "findCudaGLDevice"}

SelectionFns == InitFns \cup FindFns \cup {"getMaxGflopsDeviceIdDRV"}

InvalidIndex == {<<"invalid index", 61>>, <<"invalid index", 30>>}

\* Failures the code tests for and answers with exit(-1).
CheckedFailures ==
    { <<"cuInit", 51>>, <<"no devices", 53>>, <<"cuDeviceGetCount", 53>>, <<"cuDeviceGet", 68>>,
      <<"cuDeviceGetCount", 86>>, <<"cuDeviceComputeCapability", 90>>, <<"cuDeviceGetAttribute", 100>>,
      <<"cuDeviceGet", 149>>,
      <<"cudaGetDeviceCount", 21>>, <<"no devices", 21>>, <<"cudaGetDeviceProperties", 38>>,
      <<"not CUDA capable", 39>>, <<"cudaGLSetGLDevice", 46>> }

\* Failures the code does not look at.
IgnoredFailures ==
    { <<"cuDeviceGetName", 70>>, <<"cuInit", 85>>, <<"no devices", 86>>, <<"cuDeviceGetName", 150>>,
      <<"cuDeviceGet", 153>>, <<"cudaDeviceReset", 59>>, <<"cudaGLSetGLDevice", 65>> }

\* The enumeration of the devices succeeded.
Enumerated == call.fault \notin {"cuInit", "cuDeviceGetCount", "cudaGetDeviceCount"}

\* C1 as written: an explicit index above deviceCount-1 makes findCudaDeviceDRV
\* and findCudaGLDevice end the process with a non-zero exit code.
C1_NonZeroExit ==
    (Ran(FindFns) /\ call.fault = NoFault /\ call.argv.hasDevice /\ call.argv.devArg > Len(devices) - 1)
        => (result.kind = "exit" /\ result.value # 0)

\* C1 amended: an explicit index above deviceCount-1 ends the process in both
\* entry points; the exit code is 0, after the rejection was printed, whenever
\* at least one device was enumerated, and -1 when none was or the enumeration failed.
C1_RejectedExit ==
    (Ran(FindFns) /\ call.argv.hasDevice /\ call.argv.devArg > Len(devices) - 1)
        => /\ result.kind = "exit"
           /\ IF Len(devices) >= 1 /\ Enumerated
              THEN /\ result.value = 0
                   /\ result.failed \cap InvalidIndex # {}
                   /\ Len(result.out) = 3
              ELSE result.value = 0 - 1

C1_Witness ==
    /\ Ran({"findCudaGLDevice"})
    /\ call.argv.hasDevice /\ call.argv.devArg > Len(devices) - 1
    /\ Len(devices) >= 1
    /\ result.kind = "exit" /\ result.value = 0

\* The compute_perf of device i (0-based), as the wrapping build stores it.
Score(i) == compute_perf(devices[i + 1])

Ordinals == 0..(Len(devices) - 1)

\* The highest major version among the devices with 0 < major < 9999; 0 without one.
BestArch ==
    LET S == {devices[i + 1].major : i \in {j \in Ordinals : devices[j + 1].major > 0 /\ devices[j + 1].major < 9999}}
    IN  IF S = {} THEN 0 ELSE CHOOSE m \in S : \A k \in S : k <= m

\* The devices the second loop may select.
Candidates == {i \in Ordinals : BestArch > 2 => devices[i + 1].major = BestArch}

NoOverflow == \A i \in Ordinals : ~PerfOverflows(devices[i + 1])

\* C2 as written: with at least one device, no enumerated device has a strictly
\* greater score than the one getMaxGflopsDeviceIdDRV returns (stated here for
\* the machines whose scores are all positive and formed without overflow).
C2_GlobalMaximum ==
    (Ran({"getMaxGflopsDeviceIdDRV"}) /\ call.fault = NoFault /\ result.kind = "return"
        /\ Len(devices) >= 1 /\ NoOverflow /\ \A i \in Ordinals : Score(i) > 0)
        => \A j \in Ordinals : ~(Score(j) > Score(result.value))

\* C2 amended: the maximum is taken over the devices the loop considers (all of
\* them when best_SM_arch <= 2, else those whose major is best_SM_arch) and over
\* the scores as stored in int: when a considered device has a positive score the
\* first considered device of maximal score is returned, otherwise device 0.
C2_CandidateMaximum ==
    (Ran({"getMaxGflopsDeviceIdDRV"}) /\ result.kind = "return" /\ Len(devices) >= 1)
        => IF \E i \in Candidates : Score(i) > 0
           THEN /\ result.value \in Candidates
                /\ \A j \in Candidates : Score(j) <= Score(result.value)
                /\ \A j \in Candidates : Score(j) = Score(result.value) => result.value <= j
           ELSE result.value = 0

C2_Witness ==
    /\ Ran({"getMaxGflopsDeviceIdDRV"}) /\ result.kind = "return" /\ NoOverflow
    /\ result.value \in Candidates
    /\ result.value > 0
    /\ \A i \in Ordinals : Score(i) > 0
    /\ \E j \in Ordinals : Score(j) > Score(result.value)

\* C3 as written: after any failure (no devices, invalid index, a native call
\* that failed) none of the selection functions returns to its caller.
C3_NeverReturns ==
    (Ran(SelectionFns) /\ result.failed # {}) => result.kind # "return"

\* C3 amended: every failure the code tests for (no devices in the two init
\* functions, a checked native call) ends in a message and exit(-1) inside the
\* function; an invalid index makes the init functions print and return -index
\* to the caller, and the find functions then print and exit(0); a function
\* returns after a failure only if the failure is one the code does not look at
\* (no devices in getMaxGflopsDeviceIdDRV, an unchecked native call).
C3_FailFast ==
    Ran(SelectionFns)
        => /\ result.failed \cap CheckedFailures # {}
                => (result.kind = "exit" /\ result.value = 0 - 1 /\ result.out # <<>>)
           /\ result.failed \cap InvalidIndex # {}
                => /\ result.out # <<>>
                   /\ IF call.fn \in InitFns
                      THEN result.kind = "return" /\ result.value < 0
                      ELSE result.kind = "exit" /\ result.value = 0
           /\ (result.kind = "return" /\ result.failed \cap InvalidIndex = {})
                => result.failed \subseteq IgnoredFailures

C3_Witness ==
    /\ Ran({"gpuDeviceInitDRV"})
    /\ result.failed \cap InvalidIndex # {}
    /\ result.kind = "return"

\* C4: __checkCudaErrors prints the translated message with file and line and
\* terminates for every status other than CUDA_SUCCESS; for CUDA_SUCCESS it
\* prints nothing and returns.
C4_ErrorTranslation ==
    Ran({"__checkCudaErrors"})
        => IF call.err # CUDA_SUCCESS
           THEN /\ result.kind = "exit"
                /\ Len(result.out) = 1
                /\ result.out[1][1] = "stderr"
                /\ result.out[1][3] = <<call.err, 53>>
                /\ result.out[1][4] = <<getCudaDrvErrorString(call.err), DrvFile>>
           ELSE /\ result.kind = "return"
                /\ result.out = <<>>
                /\ result.failed = {}

C4_Witness ==
    /\ Ran({"__checkCudaErrors"})
    /\ call.err = CUDA_ERROR_INVALID_DEVICE
    /\ result.kind = "exit"

\* A hard error: one the code answers with exit(-1).
HardError ==
    \/ call.fn = "__checkCudaErrors" /\ call.err # CUDA_SUCCESS
    \/ result.failed \cap CheckedFailures # {}

C6_RangeExact ==
    (Ran(InitFns) /\ call.fault = NoFault /\ call.argv.hasDevice /\ result.kind = "return")
        => /\ (result.value = N /\ result.value >= 0) <=> (0 <= N /\ N <= Len(devices) - 1)
           /\ ~(0 <= N /\ N <= Len(devices) - 1) => result.value < 0

\* C6 amended: the init functions return N unchanged exactly when
\* 0 <= N <= deviceCount-1, reject every N above deviceCount-1 by returning -N,
\* and map every negative N to device 0, which they accept.
C6_RangeClamped ==
    (Ran(InitFns) /\ result.kind = "return")
        => /\ Len(devices) >= 1
           /\ result.value = (IF N < 0 THEN 0 ELSE IF N <= Len(devices) - 1 THEN N ELSE 0 - N)
           /\ (result.value = N /\ result.value >= 0) <=> (0 <= N /\ N <= Len(devices) - 1)

C6_Witness ==
    /\ Ran(InitFns) /\ result.kind = "return"
    /\ N < 0
    /\ result.value = 0

\* C7: when some device has 2 < major < 9999, the device getMaxGflopsDeviceIdDRV
\* returns has the highest such major version, whatever the scores are.
C7_BestArchReturned ==
    (Ran({"getMaxGflopsDeviceIdDRV"}) /\ call.fault = NoFault /\ result.kind = "return"
        /\ \E i \in Ordinals : devices[i + 1].major > 2 /\ devices[i + 1].major < 9999)
        => devices[result.value + 1].major = BestArch

C9_SignSeparates ==
    (Ran(InitFns) /\ result.kind = "return")
        => LET rejected == result.failed \cap InvalidIndex # {}
           IN  /\ rejected => result.value <= 0 - 1
               /\ ~rejected => result.value \in Ordinals
               /\ result.value < 0 <=> rejected
               /\ rejected <=> (IF N < 0 THEN 0 ELSE N) > Len(devices) - 1

C9_Witness ==
    /\ Ran(InitFns) /\ result.kind = "return"
    /\ Len(devices) = 1 /\ N = 1
    /\ result.value = 0 - 1

\* The exact product of device i is below that of device j.
TruePerfLess(i, j) ==
    TrueLess(devices[i + 1].multiProcessorCount * sm_per_multiproc(devices[i + 1]), devices[i + 1].clockRate,
             devices[j + 1].multiProcessorCount * sm_per_multiproc(devices[j + 1]), devices[j + 1].clockRate)

\* C10: compute_perf is formed in int without overflow, so that a device whose
\* exact product is larger is never ranked below one whose product is smaller.
C10_ScoreOrder ==
    (Ran({"getMaxGflopsDeviceIdDRV"}) /\ call.fault = NoFault /\ result.kind = "return")
        => \A i, j \in Ordinals : TruePerfLess(i, j) => ~(Score(j) < Score(i))
====
